---- MODULE Spec2Model ----
(***************************************************************************)
(* Control tower of practica4_ssoo_dist: the operating state, the priority *)
(* queue of aircraft (container/heap over AvionHeap), the pool of three    *)
(* runways (a buffered channel used as a semaphore) and the procesarCola   *)
(* goroutines that main starts, one per successful connection.             *)
(*                                                                         *)
(* Abstractions: numPasajeros is written once at startup and never read,   *)
(* so it is left out of Avion; an aircraft that left the queue is kept by  *)
(* its id alone, because usarPista reads only id and categoria; the sleeps *)
(* are not timed; msg is read only by the statement after the one that     *)
(* writes it and is not kept.  A goroutine is identified by what it is     *)
(* doing, not by a name: enBucle counts the ones at the top of the loop,   *)
(* and every popped aircraft stands for the goroutine that carries it.     *)
(***************************************************************************)
EXTENDS Integers, Sequences, FiniteSets

\* ---- bounds of the model ----
\* aircraft pushed by init(), in its order A, B, C, A, ... (30 in the source)
MaxAviones == 4
\* procesarCola goroutines main may start (one per connection, unbounded in
\* the source)
MaxDispatchers == 4

\* ---- program constants ----
NumPistas == 3

\* state codes the feed may deliver: the recognised 0..9 and an unrecognised
\* code on each side
Codigos == -1 .. 10

Categorias == <<"A", "B", "C">>

\* the largest priority calcularPrioridad returns
PrioridadMaxima == 2

\* the argument of rand.Intn in usarPista
LimiteUso == 4

\* history values
NoLlamada == {}
SinPop == PrioridadMaxima + 1

VARIABLES
    estadoActual,       \* int
    procesar,           \* bool
    detenerProceso,     \* bool
    colaAviones,        \* AvionHeap: the heap's backing slice
    pistasDisponibles,  \* number of tokens in the channel
    mu,                 \* "libre", or "procesarCola" while a dispatcher holds it
    conectado,          \* main is inside leerMensajes
    enBucle,            \* procesarCola goroutines at the top of their loop
    esperando,          \* ids popped, their goroutine blocked on <-pistasDisponibles
    enPista,            \* ids whose goroutine holds a runway
    ultimaLlamada,      \* history: {code} when the last step was the call
                        \* actualizarEstado(code), {} after a dispatcher step
                        \* or a line of text
    ultimaPrio          \* history: priority of the last aircraft popped since
                        \* the last state transition, SinPop if none

vars == <<estadoActual, procesar, detenerProceso, colaAviones,
          pistasDisponibles, mu, conectado, enBucle, esperando, enPista,
          ultimaLlamada, ultimaPrio>>

hist == <<ultimaLlamada, ultimaPrio>>

core == <<estadoActual, procesar, detenerProceso, colaAviones>>

\* ---- AvionHeap and container/heap ----
\* slices are 0-based in the source: At(h, i) is h[i]
At(h, i) == h[i + 1]

\* mutant: the comparison of a min-heap
LessMut(h, i, j) == At(h, i).prioridad < At(h, j).prioridad

Less(h, i, j) == At(h, i).prioridad > At(h, j).prioridad

Swap(h, i, j) == [h EXCEPT ![i + 1] = h[j + 1], ![j + 1] = h[i + 1]]

\* heap.up: (j - 1) / 2 truncates towards zero, so the parent of 0 is 0
RECURSIVE up(_, _)
up(h, j) ==
    LET i == IF j = 0 THEN 0 ELSE (j - 1) \div 2
    IN IF i = j \/ ~Less(h, j, i) THEN h ELSE up(Swap(h, i, j), i)

\* heap.down on the first n elements
RECURSIVE down(_, _, _)
down(h, i, n) ==
    LET j1 == 2 * i + 1
        j2 == j1 + 1
        j  == IF j2 < n /\ Less(h, j2, j1) THEN j2 ELSE j1
    IN IF j1 >= n THEN h
       ELSE IF ~Less(h, j, i) THEN h
       ELSE down(Swap(h, i, j), j, n)

\* heap.Push: AvionHeap.Push appends, then up from the last index
heapPush(h, x) == up(Append(h, x), Len(h))

\* mutant: AvionHeap.Pop called directly, which cuts the last element
heapPopMut(h) ==
    [avion |-> At(h, Len(h) - 1), cola |-> SubSeq(h, 1, Len(h) - 1)]

\* heap.Pop: swap first and last, down on the rest, AvionHeap.Pop cuts the last
heapPop(h) ==
    LET n == Len(h) - 1
        s == down(Swap(h, 0, n), 0, n)
    IN [avion |-> At(s, n), cola |-> SubSeq(s, 1, n)]

\* ---- state machine ----
\* mutant: case 3 tests the category of case 2
calcularPrioridadMut(avion, estado) ==
    CASE estado = 1 /\ avion.categoria = "A" -> 1
      [] estado = 2 /\ avion.categoria = "B" -> 1
      [] estado = 3 /\ avion.categoria = "B" -> 1
      [] estado = 4 /\ avion.categoria = "A" -> 2
      [] estado = 5 /\ avion.categoria = "B" -> 2
      [] estado = 6 /\ avion.categoria = "C" -> 2
      [] OTHER -> 0

calcularPrioridad(avion, estado) ==
    CASE estado = 1 /\ avion.categoria = "A" -> 1
      [] estado = 2 /\ avion.categoria = "B" -> 1
      [] estado = 3 /\ avion.categoria = "C" -> 1
      [] estado = 4 /\ avion.categoria = "A" -> 2
      [] estado = 5 /\ avion.categoria = "B" -> 2
      [] estado = 6 /\ avion.categoria = "C" -> 2
      [] OTHER -> 0

\* mutant: the loop stops one aircraft early and drops it
RECURSIVE reordenarColaMut(_, _, _)
reordenarColaMut(cola, nuevaCola, estado) ==
    IF Len(cola) <= 1 THEN nuevaCola
    ELSE LET r == heapPop(cola)
             avion == [r.avion EXCEPT !.prioridad = calcularPrioridad(r.avion, estado)]
         IN reordenarColaMut(r.cola, heapPush(nuevaCola, avion), estado)

\* the loop of reordenarCola: pop from cola, recompute, push onto nuevaCola
RECURSIVE reordenarCola(_, _, _)
reordenarCola(cola, nuevaCola, estado) ==
    IF Len(cola) = 0 THEN nuevaCola
    ELSE LET r == heapPop(cola)
             avion == [r.avion EXCEPT !.prioridad = calcularPrioridad(r.avion, estado)]
         IN reordenarCola(r.cola, heapPush(nuevaCola, avion), estado)

\* mutant: case 3 is missing
esCategoriaValidaMut(avion, estado) ==
    CASE estado = 1 -> avion.categoria = "A"
      [] estado = 2 -> avion.categoria = "B"
      [] OTHER -> TRUE

esCategoriaValida(avion, estado) ==
    CASE estado = 1 -> avion.categoria = "A"
      [] estado = 2 -> avion.categoria = "B"
      [] estado = 3 -> avion.categoria = "C"
      [] OTHER -> TRUE

\* ---- startup ----
\* the k-th aircraft init() pushes: iteration i pushes A (id i), B (id i + 10)
\* and C (id i + 20), all with priority 0
AvionInicial(k) ==
    LET i == (k - 1) \div 3 + 1
        c == (k - 1) % 3
    IN [id |-> i + 10 * c, categoria |-> Categorias[c + 1], prioridad |-> 0]

\* the category init() gives an id: 1..10 are A, 11..20 are B, 21..30 are C
CategoriaDe(id) == Categorias[(id - 1) \div 10 + 1]

RECURSIVE colaInicial(_)
colaInicial(k) ==
    IF k = 0 THEN <<>> ELSE heapPush(colaInicial(k - 1), AvionInicial(k))

Init ==
    /\ estadoActual = 0
    /\ procesar = FALSE
    /\ detenerProceso = FALSE
    /\ colaAviones = colaInicial(MaxAviones)
    /\ pistasDisponibles = NumPistas
    /\ mu = "libre"
    /\ conectado = FALSE
    /\ enBucle = 0
    /\ esperando = {}
    /\ enPista = {}
    /\ ultimaLlamada = NoLlamada
    /\ ultimaPrio = SinPop

\* ---- main and leerMensajes ----
Lanzados == enBucle + Cardinality(esperando) + Cardinality(enPista)
            + (IF mu = "procesarCola" THEN 1 ELSE 0)

\* net.Dial succeeds: go procesarCola(), then leerMensajes(conn).  A failed
\* Dial sleeps and retries without touching any variable.
Conectar ==
    /\ ~conectado
    /\ Lanzados < MaxDispatchers
    /\ conectado' = TRUE
    /\ enBucle' = enBucle + 1
    /\ UNCHANGED <<core, pistasDisponibles, mu, esperando, enPista, hist>>

\* conn.Read returns io.EOF or an error: leerMensajes returns to main's loop
Desconectar ==
    /\ conectado
    /\ conectado' = FALSE
    /\ UNCHANGED <<core, pistasDisponibles, mu, enBucle, esperando, enPista,
                   hist>>

\* mutant: only 7 keeps the current state
retenidoMut(estado) == estado = 7

\* codes 7 and 8 keep the current state
retenido(estado) == estado = 7 \/ estado = 8

\* mutant: the upper limit is missing
habilitadoMut(estado) == estado >= 1

\* procesar = estado >= 1 && estado <= 6
habilitado(estado) == estado >= 1 /\ estado <= 6

\* mutant: the queue is reordered before estadoActual is assigned
actualizarEstadoMut(estado) ==
    /\ mu = "libre"
    /\ ultimaLlamada' = {estado}
    /\ IF retenido(estado)
       THEN UNCHANGED <<core, ultimaPrio>>
       ELSE /\ estadoActual' = estado
            /\ procesar' = habilitado(estado)
            /\ detenerProceso' = FALSE
            /\ colaAviones' = IF habilitado(estado)
                              THEN reordenarCola(colaAviones, <<>>, estadoActual)
                              ELSE colaAviones
            /\ ultimaPrio' = SinPop
    /\ UNCHANGED <<pistasDisponibles, mu, conectado, enBucle, esperando, enPista>>

\* actualizarEstado(estado), from mu.Lock() to the deferred mu.Unlock()
actualizarEstado(estado) ==
    /\ mu = "libre"
    /\ ultimaLlamada' = {estado}
    /\ IF retenido(estado)
       THEN UNCHANGED <<core, ultimaPrio>>
       ELSE /\ estadoActual' = estado
            /\ procesar' = habilitado(estado)
            /\ detenerProceso' = FALSE
            /\ colaAviones' = IF habilitado(estado)
                              THEN reordenarCola(colaAviones, <<>>, estado)
                              ELSE colaAviones
            /\ ultimaPrio' = SinPop
    /\ UNCHANGED <<pistasDisponibles, mu, conectado, enBucle, esperando, enPista>>

\* ---- the lines of the feed ----
\* a line is the sequence of its characters
Digitos == <<"0", "1", "2", "3", "4", "5", "6", "7", "8", "9">>

EsDigito(c) == \E i \in DOMAIN Digitos : Digitos[i] = c

ValorDigito(c) == (CHOOSE i \in DOMAIN Digitos : Digitos[i] = c) - 1

\* the white space strings.TrimSpace cuts that a TLA+ string can hold
EsEspacio(c) == c \in {" ", "\t", "\n", "\r", "\f"}

RECURSIVE TrimLeft(_)
TrimLeft(s) ==
    IF s = <<>> \/ ~EsEspacio(Head(s)) THEN s ELSE TrimLeft(Tail(s))

RECURSIVE TrimRight(_)
TrimRight(s) ==
    IF s = <<>> \/ ~EsEspacio(s[Len(s)]) THEN s
    ELSE TrimRight(SubSeq(s, 1, Len(s) - 1))

\* strings.TrimSpace
TrimSpace(s) == TrimRight(TrimLeft(s))

RECURSIVE ValorDecimal(_)
ValorDecimal(s) ==
    IF s = <<>> THEN 0
    ELSE 10 * ValorDecimal(SubSeq(s, 1, Len(s) - 1)) + ValorDigito(s[Len(s)])

\* mutant: like C's atoi, the digits at the start count and the rest is
\* ignored; no digit gives 0
RECURSIVE PrefijoDeDigitos(_)
PrefijoDeDigitos(s) ==
    IF s = <<>> \/ ~EsDigito(Head(s)) THEN <<>>
    ELSE <<Head(s)>> \o PrefijoDeDigitos(Tail(s))

AtoiMut(s) ==
    LET signo  == s # <<>> /\ Head(s) \in {"+", "-"}
        cuerpo == PrefijoDeDigitos(IF signo THEN Tail(s) ELSE s)
        v      == ValorDecimal(cuerpo)
    IN [ok |-> TRUE, n |-> IF signo /\ Head(s) = "-" THEN 0 - v ELSE v]

\* strconv.Atoi on a short string (no overflow): an optional sign and then
\* one or more decimal digits, nothing else; 0 and an error otherwise
Atoi(s) ==
    LET signo  == s # <<>> /\ Head(s) \in {"+", "-"}
        cuerpo == IF signo THEN Tail(s) ELSE s
        v      == ValorDecimal(cuerpo)
    IN IF cuerpo = <<>> \/ \E i \in DOMAIN cuerpo : ~EsDigito(cuerpo[i])
       THEN [ok |-> FALSE, n |-> 0]
       ELSE [ok |-> TRUE, n |-> IF signo /\ Head(s) = "-" THEN 0 - v ELSE v]

\* strconv.Itoa
RECURSIVE ItoaNat(_)
ItoaNat(n) ==
    IF n < 10 THEN <<Digitos[n + 1]>>
    ELSE ItoaNat(n \div 10) \o <<Digitos[(n % 10) + 1]>>

Itoa(n) == IF n < 0 THEN <<"-">> \o ItoaNat(0 - n) ELSE ItoaNat(n)

\* Send2conn of the feed: the number and a line feed
Send2conn(number) == Itoa(number) \o <<"\n">>

\* what one conn.Read may deliver: the line Send2conn writes for a code,
LineasDeEstado == {Send2conn(c) : c \in Codigos}

\* other spellings strconv.Atoi accepts after strings.TrimSpace,
LineasVariantes == {<<"+", "4", "\n">>, <<" ", "0", "7", "\r", "\n">>}

\* and lines that are no integer: a word, an empty line, a number followed by
\* a letter, two codes read at once
LineasDeTexto ==
    {<<"h", "o", "l", "a", "\n">>, <<"\n">>, <<"4", "x", "\n">>,
     <<"0", "\n", "4", "\n">>}

Lineas == LineasDeEstado \cup LineasVariantes \cup LineasDeTexto

\* msg and the result of strconv.Atoi(msg) for every line
Lectura == [linea \in Lineas |-> Atoi(TrimSpace(linea))]

\* one pass of the loop of leerMensajes with n > 0: if strconv.Atoi accepts
\* msg, actualizarEstado(estado) (descripcionEstado only prints), otherwise
\* the line is printed
recibir(linea) ==
    LET r == Lectura[linea]
    IN IF r.ok
       THEN actualizarEstado(r.n)
       ELSE /\ ultimaLlamada' = NoLlamada
            /\ UNCHANGED <<core, pistasDisponibles, mu, conectado, enBucle,
                           esperando, enPista, ultimaPrio>>

leerMensajes ==
    /\ conectado
    /\ \E linea \in Lineas : recibir(linea)

\* ---- procesarCola ----
\* mu.Lock() at the top of the loop
Bloquear ==
    /\ enBucle > 0
    /\ mu = "libre"
    /\ mu' = "procesarCola"
    /\ enBucle' = enBucle - 1
    /\ ultimaLlamada' = NoLlamada
    /\ UNCHANGED <<core, pistasDisponibles, conectado, esperando, enPista,
                   ultimaPrio>>

\* mutant: return in place of continue, the goroutine ends
PausarMut ==
    /\ mu = "procesarCola"
    /\ detenerProceso \/ ~procesar \/ Len(colaAviones) = 0
    /\ mu' = "libre"
    /\ ultimaLlamada' = NoLlamada
    /\ UNCHANGED <<core, pistasDisponibles, conectado, enBucle, esperando,
                   enPista, ultimaPrio>>

\* detenerProceso, or !procesar, or an empty queue: unlock, sleep, continue
Pausar ==
    /\ mu = "procesarCola"
    /\ detenerProceso \/ ~procesar \/ Len(colaAviones) = 0
    /\ mu' = "libre"
    /\ enBucle' = enBucle + 1
    /\ ultimaLlamada' = NoLlamada
    /\ UNCHANGED <<core, pistasDisponibles, conectado, esperando, enPista,
                   ultimaPrio>>

\* mutant: the aircraft is not pushed back
ReinsertarMut ==
    /\ mu = "procesarCola"
    /\ ~detenerProceso /\ procesar /\ Len(colaAviones) > 0
    /\ LET r == heapPop(colaAviones)
       IN /\ estadoActual >= 1 /\ estadoActual <= 3
          /\ ~esCategoriaValida(r.avion, estadoActual)
          /\ colaAviones' = r.cola
          /\ ultimaPrio' = r.avion.prioridad
    /\ detenerProceso' = TRUE
    /\ mu' = "libre"
    /\ enBucle' = enBucle + 1
    /\ ultimaLlamada' = NoLlamada
    /\ UNCHANGED <<estadoActual, procesar, pistasDisponibles, conectado,
                   esperando, enPista>>

\* the popped aircraft is not of the exclusive category: push it back, halt
Reinsertar ==
    /\ mu = "procesarCola"
    /\ ~detenerProceso /\ procesar /\ Len(colaAviones) > 0
    /\ LET r == heapPop(colaAviones)
       IN /\ estadoActual >= 1 /\ estadoActual <= 3
          /\ ~esCategoriaValida(r.avion, estadoActual)
          /\ colaAviones' = heapPush(r.cola, r.avion)
          /\ ultimaPrio' = r.avion.prioridad
    /\ detenerProceso' = TRUE
    /\ mu' = "libre"
    /\ enBucle' = enBucle + 1
    /\ ultimaLlamada' = NoLlamada
    /\ UNCHANGED <<estadoActual, procesar, pistasDisponibles, conectado,
                   esperando, enPista>>

\* mutant: mu.Unlock() comes after usarPista(avion), not before it
DespacharConCerrojo ==
    /\ mu = "procesarCola"
    /\ ~detenerProceso /\ procesar /\ Len(colaAviones) > 0
    /\ LET r == heapPop(colaAviones)
       IN /\ ~(estadoActual >= 1 /\ estadoActual <= 3
               /\ ~esCategoriaValida(r.avion, estadoActual))
          /\ colaAviones' = r.cola
          /\ esperando' = esperando \cup {r.avion.id}
          /\ ultimaPrio' = r.avion.prioridad
    /\ mu' = "procesarCola"
    /\ ultimaLlamada' = NoLlamada
    /\ UNCHANGED <<estadoActual, procesar, detenerProceso, pistasDisponibles,
                   conectado, enBucle, enPista>>

\* mutant: the loop does not test procesar
DespacharMut ==
    /\ mu = "procesarCola"
    /\ ~detenerProceso /\ Len(colaAviones) > 0
    /\ LET r == heapPop(colaAviones)
       IN /\ ~(estadoActual >= 1 /\ estadoActual <= 3
               /\ ~esCategoriaValida(r.avion, estadoActual))
          /\ colaAviones' = r.cola
          /\ esperando' = esperando \cup {r.avion.id}
          /\ ultimaPrio' = r.avion.prioridad
    /\ mu' = "libre"
    /\ ultimaLlamada' = NoLlamada
    /\ UNCHANGED <<estadoActual, procesar, detenerProceso, pistasDisponibles,
                   conectado, enBucle, enPista>>

\* the popped aircraft may proceed: unlock and call usarPista(avion)
Despachar ==
    /\ mu = "procesarCola"
    /\ ~detenerProceso /\ procesar /\ Len(colaAviones) > 0
    /\ LET r == heapPop(colaAviones)
       IN /\ ~(estadoActual >= 1 /\ estadoActual <= 3
               /\ ~esCategoriaValida(r.avion, estadoActual))
          /\ colaAviones' = r.cola
          /\ esperando' = esperando \cup {r.avion.id}
          /\ ultimaPrio' = r.avion.prioridad
    /\ mu' = "libre"
    /\ ultimaLlamada' = NoLlamada
    /\ UNCHANGED <<estadoActual, procesar, detenerProceso, pistasDisponibles,
                   conectado, enBucle, enPista>>

\* ---- usarPista ----
\* mutant: the receive does not wait for a token
ReservarPistaMut(id) ==
    /\ id \in esperando
    /\ pistasDisponibles' = pistasDisponibles - 1
    /\ esperando' = esperando \ {id}
    /\ enPista' = enPista \cup {id}
    /\ ultimaLlamada' = NoLlamada
    /\ UNCHANGED <<core, mu, conectado, enBucle, ultimaPrio>>

\* mutant: the largest draw is n itself
IntnMut(n) == 0 .. n

\* rand.Intn(n): any of 0 .. n-1
Intn(n) == 0 .. n - 1

\* <-pistasDisponibles: blocks while the channel is empty; then the sleep of
\* d seconds begins, d drawn by rand.Intn.  The sleep is not timed: d is not
\* kept in the state
Ocupar(id, d) ==
    /\ id \in esperando
    /\ pistasDisponibles > 0
    /\ d \in Intn(LimiteUso)
    /\ pistasDisponibles' = pistasDisponibles - 1
    /\ esperando' = esperando \ {id}
    /\ enPista' = enPista \cup {id}
    /\ ultimaLlamada' = NoLlamada
    /\ UNCHANGED <<core, mu, conectado, enBucle, ultimaPrio>>

ReservarPista(id) == \E d \in Intn(LimiteUso) : Ocupar(id, d)

\* mutant: usarPista returns without sending the token
LiberarPistaMut(id) ==
    /\ id \in enPista
    /\ enPista' = enPista \ {id}
    /\ enBucle' = enBucle + 1
    /\ ultimaLlamada' = NoLlamada
    /\ UNCHANGED <<core, pistasDisponibles, mu, conectado, esperando,
                   ultimaPrio>>

\* pistasDisponibles <- struct{}{}: blocks while the channel is full; usarPista
\* returns and procesarCola loops
LiberarPista(id) ==
    /\ id \in enPista
    /\ pistasDisponibles < NumPistas
    /\ pistasDisponibles' = pistasDisponibles + 1
    /\ enPista' = enPista \ {id}
    /\ enBucle' = enBucle + 1
    /\ ultimaLlamada' = NoLlamada
    /\ UNCHANGED <<core, mu, conectado, esperando, ultimaPrio>>

usarPista ==
    \E id \in esperando \cup enPista : ReservarPista(id) \/ LiberarPista(id)

Next ==
    \/ Conectar
    \/ Desconectar
    \/ leerMensajes
    \/ Bloquear
    \/ Pausar
    \/ Reinsertar
    \/ Despachar
    \/ usarPista

Spec == Init /\ [][Next]_vars

\* The sleep in usarPista ends and the send that follows it finds room in the
\* channel, so a goroutine that holds a runway goes on to release it.
\* Nothing else is assumed: not of the feed, not of the other goroutines.
PistaJusta ==
    \A k \in 1 .. MaxAviones : WF_vars(LiberarPista(AvionInicial(k).id))

SpecPistaJusta == Spec /\ PistaJusta

\* The Go scheduler runs every goroutine that can run: besides the above, a
\* dispatcher that can take mu, pause, hand over or push back does so, and a
\* goroutine whose receive on pistasDisponibles can proceed does so.  Nothing
\* is assumed of the feed or of the connection.
Justicia ==
    /\ PistaJusta
    /\ WF_vars(Bloquear)
    /\ WF_vars(Pausar)
    /\ WF_vars(Reinsertar)
    /\ WF_vars(Despachar)
    /\ \A k \in 1 .. MaxAviones : WF_vars(ReservarPista(AvionInicial(k).id))

SpecJusto == Spec /\ Justicia

\* ---- properties ----
\* the aircraft in a queue, each with its priority
AvionSet(cola) == {cola[k] : k \in DOMAIN cola}

\* the category a state code names: A, B, C for 1, 2, 3 and for 4, 5, 6
CategoriaDelEstado(s) == IF s <= 3 THEN Categorias[s] ELSE Categorias[s - 3]

\* the priority table of the state machine, for a state code in 1..6
PrioridadTabulada(categoria, s) ==
    IF categoria # CategoriaDelEstado(s) THEN 0
    ELSE IF s <= 3 THEN 1 ELSE 2

\* the largest priority in a non-empty queue
MaxPrioridad(cola) ==
    CHOOSE p \in {cola[k].prioridad : k \in DOMAIN cola} :
        \A k \in DOMAIN cola : cola[k].prioridad <= p

\* a step that is the call actualizarEstado(s) with a code that is not retained
Transicion == \E s \in Codigos \ {7, 8} : actualizarEstado(s)

\* C1: right after actualizarEstado(s) with s in 1..6, every aircraft in the
\* queue has the priority the table gives its category in state s.
C1_PrioridadTrasEstado ==
    \A s \in ultimaLlamada \cap (1 .. 6) :
        \A k \in DOMAIN colaAviones :
            colaAviones[k].prioridad
                = PrioridadTabulada(colaAviones[k].categoria, s)

\* C1 witness: state 5 was just set on a queue that lost an aircraft to the
\* dispatcher and holds a boosted and an unboosted aircraft.
C1_Witness ==
    /\ ultimaLlamada = {5}
    /\ Len(colaAviones) < MaxAviones
    /\ \E a, b \in AvionSet(colaAviones) : a.prioridad = 2 /\ b.prioridad = 0

\* C2: right after actualizarEstado(code) with a code other than 7 and 8,
\* recognised or not, estadoActual is the code, procesar is (1 <= code <= 6)
\* and detenerProceso is false.
C2_EstadoTrasLlamada ==
    \A s \in ultimaLlamada \ {7, 8} :
        /\ estadoActual = s
        /\ procesar = (1 <= s /\ s <= 6)
        /\ ~detenerProceso

\* C2 witness: an unrecognised code was just stored while aircraft still carry
\* the priority 1 of an exclusive state.
C2_Witness ==
    /\ ultimaLlamada \cap {-1, 10} # {}
    /\ \E a \in AvionSet(colaAviones) : a.prioridad = 1

\* C3: a call actualizarEstado(7) or actualizarEstado(8) changes neither
\* estadoActual, procesar, detenerProceso nor the queue.
C3_EstadoRetenido ==
    [][\A s \in {7, 8} :
          actualizarEstado(s) =>
              /\ estadoActual' = estadoActual
              /\ procesar' = procesar
              /\ detenerProceso' = detenerProceso
              /\ AvionSet(colaAviones') = AvionSet(colaAviones)
              /\ Len(colaAviones') = Len(colaAviones)]_vars

\* C3 witness: 7 or 8 was just received while the exhaustion halt is active.
C3_Witness ==
    /\ ultimaLlamada \cap {7, 8} # {}
    /\ detenerProceso
    /\ estadoActual \in 1 .. 3

\* C4: the runways held are between 0 and NumPistas, held plus free tokens is
\* NumPistas, and with NumPistas held no waiting aircraft can reserve one.
C4_PistasAcotadas ==
    /\ Cardinality(enPista) \in 0 .. NumPistas
    /\ pistasDisponibles + Cardinality(enPista) = NumPistas
    /\ Cardinality(enPista) = NumPistas =>
           \A id \in esperando : ~ENABLED ReservarPista(id)

\* C4 witness: three aircraft hold a runway and a fourth is waiting for one.
C4_Witness ==
    /\ Cardinality(enPista) = NumPistas
    /\ esperando # {}

\* C5 (as claimed): with an exclusive state active and a non-empty queue that
\* holds no aircraft of its category, the dispatcher's iteration puts the
\* popped aircraft back and sets detenerProceso; while detenerProceso is set,
\* a step that is not a state transition dequeues no aircraft and gives no
\* aircraft a runway.
C5_ParadaPorAgotamiento ==
    [][/\ ( /\ mu = "procesarCola" /\ mu' = "libre"
            /\ estadoActual \in 1 .. 3 /\ procesar /\ ~detenerProceso
            /\ Len(colaAviones) > 0
            /\ \A a \in AvionSet(colaAviones) :
                   a.categoria # CategoriaDelEstado(estadoActual) )
          => /\ detenerProceso'
             /\ AvionSet(colaAviones') = AvionSet(colaAviones)
             /\ Len(colaAviones') = Len(colaAviones)
             /\ esperando' = esperando
       /\ (detenerProceso /\ ~Transicion)
          => /\ AvionSet(colaAviones') = AvionSet(colaAviones)
             /\ Len(colaAviones') = Len(colaAviones)
             /\ enPista' \subseteq enPista]_vars

\* C5, the part that holds with any number of dispatchers: the same statement
\* without the runway clause.
C5_SinDesencolar ==
    [][/\ ( /\ mu = "procesarCola" /\ mu' = "libre"
            /\ estadoActual \in 1 .. 3 /\ procesar /\ ~detenerProceso
            /\ Len(colaAviones) > 0
            /\ \A a \in AvionSet(colaAviones) :
                   a.categoria # CategoriaDelEstado(estadoActual) )
          => /\ detenerProceso'
             /\ AvionSet(colaAviones') = AvionSet(colaAviones)
             /\ Len(colaAviones') = Len(colaAviones)
             /\ esperando' = esperando
       /\ (detenerProceso /\ ~Transicion)
          => /\ AvionSet(colaAviones') = AvionSet(colaAviones)
             /\ Len(colaAviones') = Len(colaAviones)
             /\ esperando' \subseteq esperando]_vars

\* C5, with one dispatcher: while detenerProceso is set no aircraft is on its
\* way to a runway, so none can be given one.
C5_UnDespachador ==
    (Lanzados = 1 /\ detenerProceso) => esperando = {}

\* C6: an aircraft that the dispatcher pops and lets proceed to usarPista is
\* popped under the lock with procesar true and detenerProceso false and, in
\* states 1, 2, 3, has the category of the state.
C6_ElegibleAlDespachar ==
    [][\A id \in esperando' \ esperando :
          /\ mu = "procesarCola"
          /\ procesar
          /\ ~detenerProceso
          /\ estadoActual \in 1 .. 3 =>
                 CategoriaDe(id) = CategoriaDelEstado(estadoActual)]_vars

\* C6 witness: in a boost state an aircraft of another category was popped
\* with priority 0 and is on its way to a runway.
C6_Witness ==
    /\ estadoActual \in 4 .. 6
    /\ ultimaPrio = 0
    /\ \E id \in esperando : CategoriaDe(id) # CategoriaDelEstado(estadoActual)

\* C7: every pop returns an aircraft of the largest priority in the queue,
\* its priority is not above that of the pop before it in the same span, and
\* in states 4, 5, 6 an aircraft of another category is popped only when no
\* aircraft of the boosted category is queued.
C7_OrdenDeSalida ==
    [][(Reinsertar \/ Despachar) =>
          /\ ultimaPrio' = MaxPrioridad(colaAviones)
          /\ ultimaPrio' <= ultimaPrio
          /\ \A id \in esperando' \ esperando :
                 ( /\ estadoActual \in 4 .. 6
                   /\ CategoriaDe(id) # CategoriaDelEstado(estadoActual) )
                 => \A a \in AvionSet(colaAviones) :
                        a.categoria # CategoriaDelEstado(estadoActual)]_vars

\* C7 witness: in a boost state, after the boosted aircraft, an aircraft of
\* priority 0 was popped and others are still queued.
C7_Witness ==
    /\ estadoActual \in 4 .. 6
    /\ ultimaPrio = 0
    /\ Len(colaAviones) > 0
    /\ \E id \in esperando \cup enPista :
           CategoriaDe(id) = CategoriaDelEstado(estadoActual)

\* C8: a call actualizarEstado(s) that follows a call with the same s, with no
\* dispatcher step between them, changes neither estadoActual, procesar,
\* detenerProceso nor the aircraft in the queue and their priorities.
C8_Idempotente ==
    [][\A s \in ultimaLlamada :
          actualizarEstado(s) =>
              /\ estadoActual' = estadoActual
              /\ procesar' = procesar
              /\ detenerProceso' = detenerProceso
              /\ AvionSet(colaAviones') = AvionSet(colaAviones)
              /\ Len(colaAviones') = Len(colaAviones)]_vars

\* C8 witness: a state code that reorders a mixed queue was just applied and
\* the feed can deliver it again at once.
C8_Witness ==
    /\ ultimaLlamada \cap (1 .. 6) # {}
    /\ conectado /\ mu = "libre"
    /\ \E a, b \in AvionSet(colaAviones) : a.prioridad # b.prioridad

\* C9: actualizarEstado(0) and actualizarEstado(9) turn procesar off and keep
\* the queue; while procesar is off, from startup on, only a call with a code
\* in 1..6 changes the queue, and no aircraft is dequeued.
C9_SinProcesar ==
    [][/\ \A s \in {0, 9} :
              actualizarEstado(s) =>
                  ~procesar' /\ colaAviones' = colaAviones
       /\ (~procesar /\ ~(\E s \in 1 .. 6 : actualizarEstado(s)))
          => colaAviones' = colaAviones /\ esperando' \subseteq esperando]_vars

\* C9 witness: the airport is closed with aircraft queued and a dispatcher
\* holds the lock to look at the state.
C9_Witness ==
    /\ estadoActual = 9
    /\ ~procesar
    /\ mu = "procesarCola"
    /\ Len(colaAviones) > 0

\* C10 (as claimed): an occupancy does not hold up the dispatcher, so with
\* one procesarCola started and an aircraft on a runway the dispatcher is in
\* its loop.
C10_DespachadorLibre ==
    (Lanzados = 1 /\ enPista # {}) => (enBucle = 1 \/ mu = "procesarCola")

\* the ids init() creates
Ids == {AvionInicial(k).id : k \in 1 .. MaxAviones}

\* the ids in a queue
IdsEnCola(cola) == {cola[k].id : k \in DOMAIN cola}

\* the aircraft that used a runway and left: in no other place
Salidos == Ids \ (IdsEnCola(colaAviones) \cup esperando \cup enPista)

\* C13: the goroutine that holds mu waits for nothing: it can always end its
\* critical section and no step of that section leaves mu held; with mu
\* free the feed can apply a state code, whatever the runways in use and the
\* aircraft waiting for one; no step of usarPista touches mu.
C13_CerrojoCorto ==
    /\ mu = "procesarCola" =>
           /\ ENABLED Pausar \/ ENABLED Reinsertar \/ ENABLED Despachar
           /\ ~ENABLED ((Pausar \/ Reinsertar \/ Despachar) /\ mu' # "libre")
    /\ (mu = "libre" /\ conectado) =>
           ENABLED (\E s \in Codigos : actualizarEstado(s))
    /\ \A id \in esperando \cup enPista :
           ~ENABLED ((ReservarPista(id) \/ LiberarPista(id)) /\ mu' # mu)

\* C13 witness: every runway is held, an aircraft waits for one, and the lock
\* is free for the feed.
C13_Witness ==
    /\ Cardinality(enPista) = NumPistas
    /\ esperando # {}
    /\ mu = "libre"
    /\ conectado

\* C16 (as claimed): at most one procesarCola goroutine exists, and a
\* disconnection changes neither the state, the flags nor the queue.
C16_UnSoloDespachador ==
    [][/\ Lanzados' <= 1
       /\ Desconectar => UNCHANGED core]_vars

\* C17 (as claimed): an aircraft receives a runway token with procesar true
\* and, in states 1, 2, 3, with the category of the state.
C17_ElegibleAlReservar ==
    [][\A id \in enPista' \ enPista :
          /\ procesar
          /\ estadoActual \in 1 .. 3 =>
                 CategoriaDe(id) = CategoriaDelEstado(estadoActual)]_vars

\* C18: every id is in at most one of the queue, the aircraft waiting for a
\* runway and the aircraft on a runway (the others have left); the queue
\* holds no id twice; a state transition and a requeue keep the queued ids;
\* an aircraft leaves a runway only to have left, and one that has left
\* stays so.
C18_Conservacion ==
    [][/\ IdsEnCola(colaAviones') \cup esperando' \cup enPista' \subseteq Ids
       /\ Cardinality(IdsEnCola(colaAviones')) = Len(colaAviones')
       /\ IdsEnCola(colaAviones') \cap (esperando' \cup enPista') = {}
       /\ esperando' \cap enPista' = {}
       /\ (leerMensajes \/ Reinsertar) =>
              IdsEnCola(colaAviones') = IdsEnCola(colaAviones)
       /\ enPista \ enPista' \subseteq Salidos'
       /\ enPista' \ enPista \subseteq esperando
       /\ esperando' \ esperando \subseteq IdsEnCola(colaAviones)
       /\ Salidos \subseteq Salidos']_vars

\* C18 witness: one aircraft in each place.
C18_Witness ==
    /\ Len(colaAviones) > 0
    /\ esperando # {}
    /\ enPista # {}
    /\ Salidos # {}

\* C19: while procesar is true every queued aircraft has the priority the
\* table gives its category in estadoActual.
C19_PrioridadConsistente ==
    procesar =>
        /\ estadoActual \in 1 .. 6
        /\ \A a \in AvionSet(colaAviones) :
               a.prioridad = PrioridadTabulada(a.categoria, estadoActual)

\* C19 witness: an exclusive state in force after aircraft have left, with
\* the ineligible aircraft pushed back and others still queued.
C19_Witness ==
    /\ procesar
    /\ detenerProceso
    /\ Salidos # {}
    /\ Len(colaAviones) > 1

\* C20: while detenerProceso is set the state is 1, 2 or 3 and the queue is
\* not empty and holds no aircraft of the state's category; only a call of
\* actualizarEstado with a code other than 7 and 8 clears the flag.
C20_ParadaFundada ==
    [][/\ detenerProceso' =>
              /\ estadoActual' \in 1 .. 3
              /\ Len(colaAviones') > 0
              /\ \A a \in AvionSet(colaAviones') :
                     a.categoria # CategoriaDelEstado(estadoActual')
       /\ (detenerProceso /\ ~detenerProceso') => Transicion]_vars

\* C20 witness: the halt is active while dispatchers go on polling and
\* aircraft popped before it use their runways.
C20_Witness ==
    /\ detenerProceso
    /\ mu = "procesarCola"
    /\ enPista # {}

\* C11: a line that is no integer calls nothing: state, flags and queue stay
\* as they are and no call is recorded; the line Send2conn writes for a code
\* n, and any other spelling of n, is one call actualizarEstado(n).
C11_LineaRecibida ==
    [][/\ \A l \in LineasDeTexto :
              recibir(l) => (UNCHANGED core /\ ultimaLlamada' = NoLlamada)
       /\ \A n \in Codigos :
              recibir(Send2conn(n)) =>
                  (ultimaLlamada' = {n} /\ actualizarEstado(n))
       /\ recibir(<<"+", "4", "\n">>) =>
              (ultimaLlamada' = {4} /\ actualizarEstado(4))
       /\ recibir(<<" ", "0", "7", "\r", "\n">>) =>
              (ultimaLlamada' = {7} /\ actualizarEstado(7))]_vars

\* C11 witness: a line of text has just been read in the middle of an
\* exclusive state with the halt active, and changed none of it.
C11_Witness ==
    /\ conectado
    /\ ultimaLlamada = NoLlamada
    /\ estadoActual \in 1 .. 3
    /\ detenerProceso
    /\ mu = "libre"
    /\ enBucle = Lanzados

\* whole seconds a runway use may be asked to last, beyond what rand.Intn
\* gives
Segundos == 0 .. LimiteUso + 1

C12_SinCancelacion ==
    /\ [](\A id \in enPista : ENABLED LiberarPista(id))
    /\ [][/\ \A id \in enPista :
                \/ id \in enPista' /\ ~LiberarPista(id)
                \/ /\ LiberarPista(id)
                   /\ enPista' = enPista \ {id}
                   /\ pistasDisponibles' = pistasDisponibles + 1
          /\ leerMensajes =>
                 (enPista' = enPista /\ pistasDisponibles' = pistasDisponibles)
          /\ Salidos \cap enPista' = {}
          /\ pistasDisponibles' + Cardinality(enPista') = NumPistas]_vars
    /\ (enPista # {}) ~> (enPista = {})

\* C12 witness: an aircraft dispatched in an exclusive state is on a runway
\* after the airport was closed.
C12_Witness ==
    /\ estadoActual = 9
    /\ ~procesar
    /\ enPista # {}
    /\ ultimaLlamada = {9}

\* what the dispatchers have to reach in the state in force: in 4, 5, 6 the
\* queue is empty and the three tokens are back; in 1, 2, 3 no aircraft of
\* the state's category is queued and, if others are, the halt is active
Meta ==
    /\ estadoActual \in 4 .. 6 =>
           /\ Len(colaAviones) = 0
           /\ pistasDisponibles = NumPistas
    /\ estadoActual \in 1 .. 3 =>
           /\ \A a \in AvionSet(colaAviones) :
                  a.categoria # CategoriaDelEstado(estadoActual)
           /\ Len(colaAviones) > 0 => detenerProceso

\* C15: with the dispatcher and runway steps weakly fair, either the calls
\* of setState never cease, or from some moment on the state in force has
\* been served: in 4, 5, 6 the queue is empty and all 3 slots are free; in
\* 1, 2, 3 every aircraft of the state's category has been dispatched and,
\* aircraft of other categories being queued, the halt is active.  A state 4
\* set from that halt is one of the first cases: the B and C aircraft left
\* are dispatched.
C15_Progreso == []<>(ultimaLlamada # NoLlamada) \/ <>[]Meta

\* C15 witness: in an exclusive state every aircraft of its category has
\* taken off, the others are queued, the halt is active and every dispatcher
\* is back at the top of its loop.
C15_Witness ==
    /\ estadoActual \in 1 .. 3
    /\ detenerProceso
    /\ Len(colaAviones) > 0
    /\ \A a \in AvionSet(colaAviones) :
           a.categoria # CategoriaDelEstado(estadoActual)
    /\ \E id \in Salidos : CategoriaDe(id) = CategoriaDelEstado(estadoActual)
    /\ esperando = {} /\ enPista = {}
    /\ mu = "libre"

====
